---- MODULE Spec2Model ----
(***************************************************************************)
(* Model of the structured-document renderer of ai-services/app.py:        *)
(* is_section_empty and generate_html_breakdown with its nested helpers    *)
(* format_title, render_list_of_dicts and render_section_content; of       *)
(* process_email_with_images and is_image_attachment; and of the requests  *)
(* that go through authenticate_jwt to summarize_email,                    *)
(* summarize_email_json and the two JSON-to-HTML test endpoints.           *)
(*                                                                         *)
(* Python strings are TLA+ strings (sequences of characters); a JSON value *)
(* is a record tagged with its Python type, a dict keeping its keys and    *)
(* its values as two sequences in insertion order.                         *)
(***************************************************************************)
EXTENDS Integers, Sequences, FiniteSets, TLC

VARIABLES arg, pc, empty, result, title, fragment, calls, overlap, mail, http

vars == <<arg, pc, empty, result, title, fragment, calls, overlap, mail, http>>

(***************************************************************************)
(* Bounds of the explored inputs.                                          *)
(***************************************************************************)
MaxLen == 2
MaxDepth == 2
MaxKeys == 2

(***************************************************************************)
(* Characters and the str methods the code uses.                           *)
(***************************************************************************)
Lowers == "abcdefghijklmnopqrstuvwxyz"
Uppers == "ABCDEFGHIJKLMNOPQRSTUVWXYZ"
Digits == "0123456789"

Char(s, i) == SubSeq(s, i, i)

CharsOf(s) == {Char(s, i) : i \in 1..Len(s)}

IndexIn(c, alphabet) == CHOOSE i \in 1..Len(alphabet) : Char(alphabet, i) = c

IsUpper(c) == c \in CharsOf(Uppers)
IsLower(c) == c \in CharsOf(Lowers)
IsSpace(c) == c \in {" ", "\t", "\n"}

LowerChar(c) == IF IsUpper(c) THEN Char(Lowers, IndexIn(c, Uppers)) ELSE c
UpperChar(c) == IF IsLower(c) THEN Char(Uppers, IndexIn(c, Lowers)) ELSE c

RECURSIVE str_lower(_)
str_lower(s) ==
    IF s = "" THEN "" ELSE LowerChar(Char(s, 1)) \o str_lower(Tail(s))

RECURSIVE str_lstrip(_)
str_lstrip(s) ==
    IF s # "" /\ IsSpace(Char(s, 1)) THEN str_lstrip(Tail(s)) ELSE s

RECURSIVE str_rstrip(_)
str_rstrip(s) ==
    IF s # "" /\ IsSpace(Char(s, Len(s)))
    THEN str_rstrip(SubSeq(s, 1, Len(s) - 1))
    ELSE s

str_strip(s) == str_rstrip(str_lstrip(s))

RECURSIVE str_replace(_, _, _)
str_replace(s, old, new) ==
    IF s = "" THEN ""
    ELSE (IF Char(s, 1) = old THEN new ELSE Char(s, 1))
         \o str_replace(Tail(s), old, new)

\* str.title(): a cased character is upper-cased when the character before
\* it is not cased and lower-cased when it is.
RECURSIVE TitleFrom(_, _)
TitleFrom(s, prevCased) ==
    IF s = "" THEN ""
    ELSE LET c == Char(s, 1)
             cased == IsUpper(c) \/ IsLower(c)
         IN (IF ~cased THEN c
             ELSE IF prevCased THEN LowerChar(c) ELSE UpperChar(c))
            \o TitleFrom(Tail(s), cased)

str_title(s) == TitleFrom(s, FALSE)

Contains(s, sub) ==
    \E i \in 1..(Len(s) - Len(sub) + 1) : SubSeq(s, i, i + Len(sub) - 1) = sub

RECURSIVE Join(_)
Join(parts) ==
    IF parts = <<>> THEN "" ELSE Head(parts) \o Join(Tail(parts))

(***************************************************************************)
(* JSON values as json.loads builds them.                                  *)
(***************************************************************************)
Str(s) == [t |-> "str", s |-> s, n |-> 0, keys |-> <<>>, items |-> <<>>]
Num(n) == [t |-> "num", s |-> "", n |-> n, keys |-> <<>>, items |-> <<>>]
Bool(b) ==
    [t |-> "bool", s |-> "", n |-> IF b THEN 1 ELSE 0, keys |-> <<>>,
     items |-> <<>>]
Null == [t |-> "null", s |-> "", n |-> 0, keys |-> <<>>, items |-> <<>>]
List(xs) == [t |-> "list", s |-> "", n |-> 0, keys |-> <<>>, items |-> xs]
Dict(ks, xs) == [t |-> "dict", s |-> "", n |-> 0, keys |-> ks, items |-> xs]

\* Python truthiness: `not v` is true of None, False, 0, "", [] and {}.
Falsy(v) ==
    CASE v.t = "null" -> TRUE
      [] v.t = "bool" -> v.n = 0
      [] v.t = "num" -> v.n = 0
      [] v.t = "str" -> v.s = ""
      [] OTHER -> v.items = <<>>

(***************************************************************************)
(* is_section_empty                                                        *)
(***************************************************************************)
RECURSIVE is_section_empty(_)

StrIsEmptyNoStrip(s) == str_lower(s) \in {"n/a", ""}

\* section_data.strip().lower() in ['n/a', '']
StrIsEmpty(s) == str_lower(str_strip(s)) \in {"n/a", ""}

ListIsEmptyDeep(xs) == \A i \in 1..Len(xs) : is_section_empty(xs[i])

\* not section_data, for a list
ListIsEmpty(xs) == xs = <<>>

OtherIsEmptyFalsy(section_data) == Falsy(section_data)

OtherIsEmptyOnlyNull(section_data) == section_data.t = "null"

\* the final `return True`
OtherIsEmpty(section_data) == TRUE

is_section_empty_shallow(section_data) ==
    CASE section_data.t = "str" -> StrIsEmpty(section_data.s)
      [] section_data.t = "list" -> ListIsEmpty(section_data.items)
      [] section_data.t = "dict" -> section_data.items = <<>>
      [] OTHER -> OtherIsEmpty(section_data)

is_section_empty(section_data) ==
    CASE section_data.t = "str" -> StrIsEmpty(section_data.s)
      [] section_data.t = "list" -> ListIsEmpty(section_data.items)
      [] section_data.t = "dict" ->
           \A i \in 1..Len(section_data.items) :
               is_section_empty(section_data.items[i])
      [] OTHER -> OtherIsEmpty(section_data)

\* The definition at lines 184-194, which the later one replaces.
RECURSIVE is_section_empty_earlier(_)

StrIsEmptyEarlierNoLower(s) == str_strip(s) = "n/a" \/ str_strip(s) = ""

\* section_data.strip().lower() == 'n/a' or not section_data.strip()
StrIsEmptyEarlier(s) == str_lower(str_strip(s)) = "n/a" \/ str_strip(s) = ""

is_section_empty_earlier(section_data) ==
    IF section_data.t = "str" THEN StrIsEmptyEarlier(section_data.s)
    ELSE IF section_data.t = "list" THEN section_data.items = <<>>
    ELSE IF section_data.t = "dict"
    THEN \A i \in 1..Len(section_data.items) :
             is_section_empty_earlier(section_data.items[i])
    ELSE TRUE

(***************************************************************************)
(* str(v) and repr(v) of the values json.loads can build.                  *)
(***************************************************************************)
RECURSIVE NatStr(_)
NatStr(n) ==
    IF n < 10 THEN Char(Digits, n + 1)
    ELSE NatStr(n \div 10) \o Char(Digits, (n % 10) + 1)

IntStr(n) == IF n < 0 THEN "-" \o NatStr(0 - n) ELSE NatStr(n)

\* repr of a str: single quotes unless the text holds a single quote and no
\* double quote; backslash, the quote, newline and tab are escaped.
ReprQuote(s) ==
    IF "'" \in CharsOf(s) /\ ~("\"" \in CharsOf(s)) THEN "\"" ELSE "'"

RECURSIVE ReprEscape(_, _)
ReprEscape(s, q) ==
    IF s = "" THEN ""
    ELSE LET c == Char(s, 1)
         IN (CASE c = "\\" -> "\\\\"
               [] c = "\n" -> "\\n"
               [] c = "\t" -> "\\t"
               [] c = q -> "\\" \o q
               [] OTHER -> c)
            \o ReprEscape(Tail(s), q)

ReprStr(s) == ReprQuote(s) \o ReprEscape(s, ReprQuote(s)) \o ReprQuote(s)

RECURSIVE py_repr(_)
RECURSIVE ReprItems(_, _)
RECURSIVE ReprPairs(_, _, _)

ReprItems(xs, i) ==
    IF i > Len(xs) THEN ""
    ELSE (IF i > 1 THEN ", " ELSE "") \o py_repr(xs[i]) \o ReprItems(xs, i + 1)

ReprPairs(ks, xs, i) ==
    IF i > Len(xs) THEN ""
    ELSE (IF i > 1 THEN ", " ELSE "") \o ReprStr(ks[i]) \o ": "
         \o py_repr(xs[i]) \o ReprPairs(ks, xs, i + 1)

py_repr(v) ==
    CASE v.t = "str" -> ReprStr(v.s)
      [] v.t = "num" -> IntStr(v.n)
      [] v.t = "bool" -> (IF v.n = 1 THEN "True" ELSE "False")
      [] v.t = "null" -> "None"
      [] v.t = "list" -> "[" \o ReprItems(v.items, 1) \o "]"
      [] OTHER -> "{" \o ReprPairs(v.keys, v.items, 1) \o "}"

py_str(v) == IF v.t = "str" THEN v.s ELSE py_repr(v)

(***************************************************************************)
(* generate_html_breakdown and its nested helpers                          *)
(***************************************************************************)
\* re.sub(r'(?<!^)(?=[A-Z])', ' ', key_str): a space goes in front of every
\* upper-case letter that is not the first character.
RECURSIVE SplitCamelAll(_, _)
SplitCamelAll(s, i) ==
    IF i > Len(s) THEN ""
    ELSE (IF IsUpper(Char(s, i)) THEN " " ELSE "") \o Char(s, i)
         \o SplitCamelAll(s, i + 1)

RECURSIVE SplitCamel(_, _)
SplitCamel(s, i) ==
    IF i > Len(s) THEN ""
    ELSE (IF i > 1 /\ IsUpper(Char(s, i)) THEN " " ELSE "") \o Char(s, i)
         \o SplitCamel(s, i + 1)

format_title(key_str) ==
    str_title(str_replace(SplitCamel(key_str, 1), "_", " "))

RECURSIVE InnerListDeep(_, _)
InnerListDeep(v, i) ==
    IF i > Len(v) THEN ""
    ELSE "<li>"
         \o (IF v[i].t = "list"
             THEN "<ul>" \o InnerListDeep(v[i].items, 1) \o "</ul>"
             ELSE py_str(v[i]))
         \o "</li>" \o InnerListDeep(v, i + 1)

RECURSIVE InnerList(_, _)
InnerList(v, i) ==
    IF i > Len(v) THEN ""
    ELSE "<li>" \o py_str(v[i]) \o "</li>" \o InnerList(v, i + 1)

RECURSIVE CardFields(_, _)
CardFields(item, i) ==
    IF i > Len(item.items) THEN ""
    ELSE LET k == item.keys[i]
             v == item.items[i]
         IN "<div><strong>" \o format_title(k) \o ":</strong> "
            \o (IF v.t = "list"
                THEN "<ul>" \o InnerList(v.items, 1) \o "</ul>"
                ELSE py_str(v))
            \o "</div>"
            \o CardFields(item, i + 1)

RECURSIVE ListEntries(_, _)
ListEntries(items, i) ==
    IF i > Len(items) THEN ""
    ELSE (IF items[i].t = "dict"
          THEN "<li class=\"item-card\">" \o CardFields(items[i], 1) \o "</li>"
          ELSE "<li>" \o py_str(items[i]) \o "</li>")
         \o ListEntries(items, i + 1)

render_list_of_dicts_no_wrap(items) ==
    IF Falsy(items) THEN "<p><em>N/A</em></p>"
    ELSE IF items.t # "list" THEN "<p>" \o py_str(items) \o "</p>"
    ELSE "<ul class=\"item-list\">" \o ListEntries(items.items, 1) \o "</ul>"

render_list_of_dicts_wrap_first(items) ==
    LET items1 == IF items.t = "dict" THEN List(<<items>>) ELSE items
    IN IF Falsy(items1) THEN "<p><em>N/A</em></p>"
       ELSE IF items1.t # "list" THEN "<p>" \o py_str(items1) \o "</p>"
       ELSE "<ul class=\"item-list\">" \o ListEntries(items1.items, 1)
            \o "</ul>"

render_list_of_dicts(items) ==
    IF Falsy(items) THEN "<p><em>N/A</em></p>"
    ELSE LET items1 == IF items.t = "dict" THEN List(<<items>>) ELSE items
         IN IF items1.t # "list" THEN "<p>" \o py_str(items1) \o "</p>"
            ELSE "<ul class=\"item-list\">" \o ListEntries(items1.items, 1)
                 \o "</ul>"

RECURSIVE SectionFieldsNoPlaceholder(_, _)
SectionFieldsNoPlaceholder(data, i) ==
    IF i > Len(data.items) THEN ""
    ELSE LET minor_key == data.keys[i]
             content == data.items[i]
         IN "<h5>" \o format_title(minor_key) \o "</h5>"
            \o (IF content.t \in {"list", "dict"}
                THEN render_list_of_dicts(content)
                ELSE "<p>" \o py_str(content) \o "</p>")
            \o SectionFieldsNoPlaceholder(data, i + 1)

RECURSIVE SectionFields(_, _)
SectionFields(data, i) ==
    IF i > Len(data.items) THEN ""
    ELSE LET minor_key == data.keys[i]
             content == data.items[i]
         IN "<h5>" \o format_title(minor_key) \o "</h5>"
            \o (IF Falsy(content) /\ content.t # "bool"
                THEN "<p><em>N/A</em></p>"
                ELSE render_list_of_dicts(content))
            \o SectionFields(data, i + 1)

render_section_content(data) ==
    CASE data.t = "dict" -> SectionFields(data, 1)
      [] data.t = "list" -> render_list_of_dicts(data)
      [] OTHER ->
           "<p>" \o (IF Falsy(data) THEN "<em>N/A</em>" ELSE py_str(data))
           \o "</p>"

\* html_breakdown[major_key] = value on a dict kept as two sequences.
DictSet(ks, xs, k, x) ==
    IF \E j \in 1..Len(ks) : ks[j] = k
    THEN [keys |-> ks,
          vals |-> [j \in 1..Len(xs) |-> IF ks[j] = k THEN x ELSE xs[j]]]
    ELSE [keys |-> Append(ks, k), vals |-> Append(xs, x)]

NoResult ==
    [exc |-> "", breakdown_keys |-> <<>>, breakdown_vals |-> <<>>,
     full_html |-> ""]

SkipSectionIfFalsy(section_data) == Falsy(section_data)

\* if is_section_empty(section_data): continue
SkipSection(section_data) == is_section_empty(section_data)

BreakdownEntryUnwrapped(content_html) == content_html

\* f'<div class="summary-container">{content_html}</div>'
BreakdownEntry(content_html) ==
    "<div class=\"summary-container\">" \o content_html \o "</div>"

\* f"<h4>{format_title(major_key)}</h4>{content_html}"
FullHtmlPart(major_key, content_html) ==
    "<h4>" \o format_title(major_key) \o "</h4>" \o content_html

PrependPart(full_html_parts, part) == <<part>> \o full_html_parts

\* full_html_parts.append(...)
AppendPart(full_html_parts, part) == Append(full_html_parts, part)

\* The body of `for major_key, section_data in parsed_dict.items()` from the
\* i-th pair on; acc holds html_breakdown and full_html_parts.
RECURSIVE MainLoop(_, _, _)
MainLoop(parsed_dict, i, acc) ==
    IF i > Len(parsed_dict.items) THEN acc
    ELSE LET major_key == parsed_dict.keys[i]
             section_data == parsed_dict.items[i]
         IN IF SkipSection(section_data)
            THEN MainLoop(parsed_dict, i + 1, acc)
            ELSE LET content_html == render_section_content(section_data)
                     bd == DictSet(acc.keys, acc.vals, major_key,
                                   BreakdownEntry(content_html))
                 IN MainLoop(parsed_dict, i + 1,
                             [keys |-> bd.keys, vals |-> bd.vals,
                              full_html_parts |->
                                  AppendPart(acc.full_html_parts,
                                             FullHtmlPart(major_key,
                                                          content_html))])

EarlyReturnIfFalsy(parsed_dict) == Falsy(parsed_dict)

EarlyReturnIfNotDict(parsed_dict) == parsed_dict.t # "dict"

EarlyReturnIfBoth(parsed_dict) == Falsy(parsed_dict) /\ parsed_dict.t # "dict"

EarlyReturnIfNothingToShow(parsed_dict) ==
    \/ Falsy(parsed_dict)
    \/ parsed_dict.t # "dict"
    \/ \A i \in 1..Len(parsed_dict.items) : is_section_empty(parsed_dict.items[i])

\* if not parsed_dict or not isinstance(parsed_dict, dict)
EarlyReturn(parsed_dict) == Falsy(parsed_dict) \/ parsed_dict.t # "dict"

NoSummary ==
    [exc |-> "", breakdown_keys |-> <<>>, breakdown_vals |-> <<>>,
     full_html |-> "<p>No summary data available.</p>"]

generate_html_breakdown(parsed_dict) ==
    IF EarlyReturn(parsed_dict) THEN NoSummary
    ELSE IF parsed_dict.t # "dict"
    THEN \* parsed_dict.items() of a value that is not a dict
         [NoResult EXCEPT !.exc = "AttributeError"]
    ELSE LET acc == MainLoop(parsed_dict, 1,
                             [keys |-> <<>>, vals |-> <<>>,
                              full_html_parts |-> <<>>])
         IN [exc |-> "", breakdown_keys |-> acc.keys,
             breakdown_vals |-> acc.vals,
             full_html |-> "<div class=\"summary-container\">"
                           \o Join(acc.full_html_parts) \o "</div>"]

(***************************************************************************)
(* The explored inputs.                                                    *)
(***************************************************************************)
SeqsUpTo(S, n) == UNION {[1..m -> S] : m \in 0..n}

InjSeqsUpTo(S, n) ==
    {q \in SeqsUpTo(S, n) : \A i, j \in 1..Len(q) : q[i] = q[j] => i = j}

DictsOver(K, V, n) ==
    UNION {{Dict(ks, xs) : xs \in [1..Len(ks) -> V]} : ks \in InjSeqsUpTo(K, n)}

RECURSIVE Nest(_, _)
Nest(v, d) == IF d = 0 THEN v ELSE Dict(<<"inner">>, <<Nest(v, d - 1)>>)

RECURSIVE Wide(_, _)
Wide(v, d) ==
    IF d = 0 THEN v
    ELSE Dict(<<"note", "inner">>, <<Str(" n/A"), Wide(v, d - 1)>>)

TopStrings ==
    {Str(""), Str("N/A"), Str("n/a"), Str("N/a"), Str(" n/A\t"), Str("\n "),
     Str("hi"), Str("n/a."), Str("N / A"), Str("na"), Str(" x "), Str("N/A x")}

Leaves ==
    {Str(""), Str("N/A"), Str("hi"), Num(0), Num(7), Bool(FALSE), Bool(TRUE),
     Null}

ListElems == {Str("N/A"), Str(""), Str("hi"), Dict(<<>>, <<>>)}

Lists == {List(xs) : xs \in SeqsUpTo(ListElems, MaxLen)}

FieldKeys == {"x", "keyMessage"}

FieldVals == Leaves \cup {List(<<>>), List(<<Str("hi")>>)}

Deep ==
    {Nest(v, d) : v \in FieldVals, d \in 1..MaxDepth}
    \cup {Wide(v, d) : v \in FieldVals, d \in 1..MaxDepth}

Values ==
    TopStrings \cup Leaves \cup Lists \cup DictsOver(FieldKeys, FieldVals, MaxKeys)
    \cup Deep

\* Keys given to format_title.
TitleKeys ==
    {Str("executiveSummary"), Str("key_message"), Str("a"), Str(""),
     Str("Executive Summary"), Str("HTMLData"), Str("x1y"), Str("_lead"),
     Str("A_B"), Str("keyMessage"), Str("mcDonald_s")}

\* Fields of a record section: every display-empty value, both booleans,
\* text, a number, lists and nested records.
SectionFieldVals ==
    Leaves \cup {List(<<>>), List(<<Str("hi")>>), Dict(<<>>, <<>>),
                 Dict(<<"owner">>, <<Str("Finance")>>)}

RecordSections == DictsOver(FieldKeys, SectionFieldVals, MaxKeys)

\* Items of a list handed to render_list_of_dicts.
CardItems ==
    {Str("N/A"), Num(7),
     Dict(<<"description", "deadline">>, <<Str("Pay invoice"), Str("N/A")>>),
     Dict(<<"tags", "owner", "done">>,
          <<List(<<Str("a"), List(<<Str("b")>>), Null>>),
            Dict(<<"name">>, <<Str("Finance")>>), Bool(FALSE)>>)}

CardLists == {List(xs) : xs \in SeqsUpTo(CardItems, MaxLen)}

\* Values given to the nested helpers on their own.
HelperArgs == Values \cup RecordSections \cup CardLists \cup CardItems

\* Records with one section that is itself a record.
SectionRecords == {Dict(<<"actionItems">>, <<s>>) : s \in RecordSections}

Sections ==
    {Str("N/A"), Str("hi"), Str("<h4>A B</h4>"), Num(7), Bool(FALSE),
     List(<<>>), List(<<Str("N/A")>>),
     Dict(<<>>, <<>>),
     Dict(<<"x", "y">>, <<Null, List(<<>>)>>),
     Dict(<<"x", "y">>, <<Str("N/A"), List(<<Str("hi")>>)>>),
     Dict(<<"tasks">>,
          <<List(<<Dict(<<"description", "deadline">>,
                        <<Str("Pay invoice"), Str("N/A")>>)>>)>>),
     Nest(Str("hi"), MaxDepth)}

TopKeys == {"aB", "a_b", "legalImpact"}

Records == DictsOver(TopKeys, Sections, MaxKeys)

Args == Values \cup Records \cup TitleKeys \cup HelperArgs \cup SectionRecords

(***************************************************************************)
(* One call of each function on one input.                                 *)
(***************************************************************************)
Init ==
    /\ arg \in Args
    /\ pc = "idle"
    /\ empty = FALSE
    /\ result = NoResult
    /\ title = ""
    /\ fragment = ""
    /\ calls = <<>>
    /\ overlap = FALSE
    /\ mail = <<>>
    /\ http = <<>>

IsSectionEmpty ==
    /\ pc = "idle"
    /\ empty' = is_section_empty(arg)
    /\ pc' = "checked"
    /\ UNCHANGED <<arg, result, title, fragment, calls, overlap, mail, http>>

GenerateHtmlBreakdown ==
    /\ pc = "idle"
    /\ result' = generate_html_breakdown(arg)
    /\ pc' = IF result'.exc = "" THEN "rendered" ELSE "raised"
    /\ UNCHANGED <<arg, empty, title, fragment, calls, overlap, mail, http>>

FormatTitle ==
    /\ pc = "idle"
    /\ arg \in TitleKeys
    /\ title' = format_title(arg.s)
    /\ pc' = "titled"
    /\ UNCHANGED <<arg, empty, result, fragment, calls, overlap, mail, http>>

RenderSectionContent ==
    /\ pc = "idle"
    /\ arg \in HelperArgs
    /\ fragment' = render_section_content(arg)
    /\ pc' = "section"
    /\ UNCHANGED <<arg, empty, result, title, calls, overlap, mail, http>>

RenderListOfDicts ==
    /\ pc = "idle"
    /\ arg \in HelperArgs
    /\ fragment' = render_list_of_dicts(arg)
    /\ pc' = "listed"
    /\ UNCHANGED <<arg, empty, result, title, calls, overlap, mail, http>>

\* format_title applied to a title it produced.
FormatTitleAgain ==
    /\ pc = "titled"
    /\ title' = format_title(title)
    /\ pc' = "retitled"
    /\ UNCHANGED <<arg, empty, result, fragment, calls, overlap, mail, http>>

IsSectionEmptyEarlier ==
    /\ pc = "idle"
    /\ empty' = is_section_empty_earlier(arg)
    /\ pc' = "checked_earlier"
    /\ UNCHANGED <<arg, result, title, fragment, calls, overlap, mail, http>>

Next ==
    \/ IsSectionEmpty
    \/ IsSectionEmptyEarlier
    \/ GenerateHtmlBreakdown
    \/ FormatTitle
    \/ FormatTitleAgain
    \/ RenderSectionContent
    \/ RenderListOfDicts

Spec == Init /\ [][Next]_vars

(***************************************************************************)
(* Calls of generate_html_breakdown taken one loop iteration at a time.    *)
(* calls[c] is the frame of caller c: the argument it passes and the       *)
(* locals html_breakdown (keys, vals) and full_html_parts of the running   *)
(* call; a caller calls again with the same argument, keeping the result   *)
(* of its previous call in last.                                           *)
(***************************************************************************)
MaxRuns == 2

Callers == {1, 2}

CallArgs ==
    {Str("hi"),
     Dict(<<>>, <<>>),
     Dict(<<"aB", "legalImpact">>, <<Str("hi"), List(<<Str("N/A")>>)>>),
     Dict(<<"legalImpact", "aB">>, <<Str("N/A"), Str("hi")>>),
     Dict(<<"a_b", "aB">>, <<Num(7), List(<<Str("hi")>>)>>),
     Dict(<<"actionItems">>,
          <<Dict(<<"x">>, <<Dict(<<"owner">>, <<Str("Finance")>>)>>)>>)}

NewFrame(a) ==
    [arg |-> a, pc |-> "idle", i |-> 0, keys |-> <<>>, vals |-> <<>>,
     full_html_parts |-> <<>>, ret |-> NoResult, runs |-> 0,
     last |-> NoResult]

BeginCallKeepsLocals(cs, c) ==
    IF EarlyReturn(cs[c].arg)
    THEN [cs EXCEPT ![c].ret = NoSummary, ![c].pc = "done", ![c].runs = @ + 1]
    ELSE [cs EXCEPT ![c].i = 1, ![c].pc = "loop"]

\* The early return, or html_breakdown = {} and full_html_parts = [].
BeginCall(cs, c) ==
    IF EarlyReturn(cs[c].arg)
    THEN [cs EXCEPT ![c].ret = NoSummary, ![c].pc = "done", ![c].runs = @ + 1]
    ELSE [cs EXCEPT ![c].keys = <<>>, ![c].vals = <<>>,
                    ![c].full_html_parts = <<>>, ![c].i = 1, ![c].pc = "loop"]

\* One iteration of the for loop on the frame f.
LoopBodyFrame(f) ==
    LET major_key == f.arg.keys[f.i]
        section_data == f.arg.items[f.i]
    IN IF SkipSection(section_data) THEN [f EXCEPT !.i = @ + 1]
       ELSE LET content_html == render_section_content(section_data)
                bd == DictSet(f.keys, f.vals, major_key,
                              BreakdownEntry(content_html))
            IN [f EXCEPT !.i = @ + 1, !.keys = bd.keys, !.vals = bd.vals,
                         !.full_html_parts =
                             AppendPart(@, FullHtmlPart(major_key,
                                                        content_html))]

\* full_html_parts as one list shared by every running call.
LoopBodyShared(cs, c) ==
    [d \in DOMAIN cs |->
        IF d = c THEN LoopBodyFrame(cs[c])
        ELSE IF cs[d].pc = "loop"
        THEN [cs[d] EXCEPT !.full_html_parts =
                               LoopBodyFrame(cs[c]).full_html_parts]
        ELSE cs[d]]

\* The loop taking each pair out of parsed_dict as it goes.
LoopBodyConsuming(cs, c) ==
    [cs EXCEPT ![c] = [LoopBodyFrame(cs[c]) EXCEPT
                           !.i = cs[c].i,
                           !.arg = Dict(SubSeq(@.keys, 1, cs[c].i - 1)
                                        \o SubSeq(@.keys, cs[c].i + 1,
                                                  Len(@.keys)),
                                        SubSeq(@.items, 1, cs[c].i - 1)
                                        \o SubSeq(@.items, cs[c].i + 1,
                                                  Len(@.items)))]]

LoopBody(cs, c) == [cs EXCEPT ![c] = LoopBodyFrame(cs[c])]

ReturnCall(cs, c) ==
    [cs EXCEPT ![c].ret =
                   [exc |-> "", breakdown_keys |-> cs[c].keys,
                    breakdown_vals |-> cs[c].vals,
                    full_html |-> "<div class=\"summary-container\">"
                                  \o Join(cs[c].full_html_parts) \o "</div>"],
               ![c].pc = "done", ![c].runs = @ + 1]

Running(cs) == {c \in DOMAIN cs : cs[c].pc = "loop"}

InitCalls ==
    /\ arg = Null
    /\ pc = "idle"
    /\ empty = FALSE
    /\ result = NoResult
    /\ title = ""
    /\ fragment = ""
    /\ calls \in {[c \in Callers |-> NewFrame(a[c])] : a \in [Callers -> CallArgs]}
    /\ overlap = FALSE
    /\ mail = <<>>
    /\ http = <<>>

Begin(c) ==
    /\ calls[c].pc = "idle"
    /\ calls' = BeginCall(calls, c)
    /\ overlap' = (overlap \/ Cardinality(Running(calls')) > 1)
    /\ UNCHANGED <<arg, pc, empty, result, title, fragment, mail, http>>

Step(c) ==
    /\ calls[c].pc = "loop"
    /\ calls[c].i <= Len(calls[c].arg.items)
    /\ calls' = LoopBody(calls, c)
    /\ UNCHANGED <<arg, pc, empty, result, title, fragment, overlap, mail, http>>

Return(c) ==
    /\ calls[c].pc = "loop"
    /\ calls[c].i > Len(calls[c].arg.items)
    /\ calls' = ReturnCall(calls, c)
    /\ UNCHANGED <<arg, pc, empty, result, title, fragment, overlap, mail, http>>

Again(c) ==
    /\ calls[c].pc = "done"
    /\ calls[c].runs < MaxRuns
    /\ calls' = [calls EXCEPT ![c].pc = "idle", ![c].last = calls[c].ret]
    /\ UNCHANGED <<arg, pc, empty, result, title, fragment, overlap, mail, http>>

NextCalls == \E c \in Callers : Begin(c) \/ Step(c) \/ Return(c) \/ Again(c)

SpecCalls == InitCalls /\ [][NextCalls]_vars

(***************************************************************************)
(* process_email_with_images and the functions it calls.  The body of an   *)
(* email is kept both as the string the code reads and as the sequence of  *)
(* its pieces (texts and <img src="..."> tags); re.findall over the body   *)
(* selects, in order, the tags whose src matches the pattern, the patterns *)
(* of the code never matching across a '>' or a '"'.  The text detection   *)
(* of the Vision API is the environment: ocr[k] is the outcome of the k-th *)
(* call made.                                                              *)
(***************************************************************************)
StartsWith(s, p) == Len(s) >= Len(p) /\ SubSeq(s, 1, Len(p)) = p

EndsWith(s, p) == Len(s) >= Len(p) /\ SubSeq(s, Len(s) - Len(p) + 1, Len(s)) = p

\* Position of the first occurrence of sub in s, 0 when there is none.
Find(s, sub) ==
    IF Contains(s, sub)
    THEN CHOOSE q \in 1..(Len(s) - Len(sub) + 1) :
             /\ SubSeq(s, q, q + Len(sub) - 1) = sub
             /\ \A r \in 1..(q - 1) : SubSeq(s, r, r + Len(sub) - 1) # sub
    ELSE 0

\* d.get(k, default)
DictGet(d, k, default) ==
    IF \E i \in 1..Len(d.keys) : d.keys[i] = k
    THEN d.items[CHOOSE i \in 1..Len(d.keys) : d.keys[i] = k]
    ELSE default

image_extensions ==
    <<".jpg", ".jpeg", ".png", ".gif", ".bmp", ".webp", ".tiff", ".tif", ".svg">>

HasImageExtension(filename) ==
    \E e \in 1..Len(image_extensions) :
        EndsWith(str_lower(filename.s), image_extensions[e])

is_image_attachment_either(filename, mime_type) ==
    \/ (~Falsy(mime_type) /\ StartsWith(mime_type.s, "image/"))
    \/ (~Falsy(filename) /\ HasImageExtension(filename))

is_image_attachment(filename, mime_type) ==
    IF Falsy(filename) /\ Falsy(mime_type) THEN FALSE
    ELSE IF ~Falsy(mime_type) THEN StartsWith(mime_type.s, "image/")
    ELSE IF ~Falsy(filename) THEN HasImageExtension(filename)
    ELSE FALSE

\* What a text detection can come to: text found, no annotation, an error
\* reported or raised (bad base64 included); for a URL also a failed fetch
\* and a response that is not an image.
OcrText(t) == [kind |-> "text", text |-> t]
OcrNoText == [kind |-> "no_text", text |-> ""]
OcrError == [kind |-> "api_error", text |-> ""]
OcrFetchError == [kind |-> "fetch_error", text |-> ""]
OcrNotImage == [kind |-> "not_image", text |-> ""]

extract_text_from_image_base64(vision, outcome) ==
    IF ~vision THEN [text |-> "", error |-> "Vision API not available"]
    ELSE IF outcome.kind = "text" THEN [text |-> outcome.text, error |-> ""]
    ELSE IF outcome.kind = "no_text" THEN [text |-> "", error |-> ""]
    ELSE [text |-> "", error |-> outcome.kind]

extract_text_from_image_url(vision, outcome) ==
    IF ~vision THEN [text |-> "", error |-> "Vision API not available"]
    ELSE IF outcome.kind = "fetch_error" THEN [text |-> "", error |-> "Fetch error"]
    ELSE IF outcome.kind = "not_image" THEN [text |-> "", error |-> "Not an image"]
    ELSE IF outcome.kind = "text" THEN [text |-> outcome.text, error |-> ""]
    ELSE IF outcome.kind = "no_text" THEN [text |-> "", error |-> ""]
    ELSE [text |-> "", error |-> outcome.kind]

\* Pieces of a body.
Text(t) == [kind |-> "text", text |-> t, src |-> ""]
Img(src) == [kind |-> "img", text |-> "<img src=\"" \o src \o "\">", src |-> src]

BodyText(tokens) == Join([i \in 1..Len(tokens) |-> tokens[i].text])

\* <img[^>]+src="data:image/([^;]+);base64,([^"]+)"[^>]*>
Base64Match(src) ==
    LET rest == SubSeq(src, 12, Len(src))
        semi == Find(rest, ";")
        after == SubSeq(rest, semi, Len(rest))
    IN IF StartsWith(src, "data:image/") /\ semi > 1
          /\ StartsWith(after, ";base64,") /\ Len(after) > 8
       THEN [ok |-> TRUE, img_type |-> SubSeq(rest, 1, semi - 1),
             img_data |-> SubSeq(after, 9, Len(after))]
       ELSE [ok |-> FALSE, img_type |-> "", img_data |-> ""]

\* <img[^>]+src="(https?://[^"]+)"[^>]*>
UrlMatch(src) ==
    \/ (StartsWith(src, "http://") /\ Len(src) > 7)
    \/ (StartsWith(src, "https://") /\ Len(src) > 8)

ImgTags(tokens) == SelectSeq(tokens, LAMBDA t : t.kind = "img" /\ t.src # "")

base64_matches(tokens) ==
    SelectSeq(ImgTags(tokens), LAMBDA t : Base64Match(t.src).ok)

url_matches(tokens) == SelectSeq(ImgTags(tokens), LAMBDA t : UrlMatch(t.src))

\* src="cid:([^"]+)"
cid_matches(tokens) ==
    LET m == SelectSeq(ImgTags(tokens),
                       LAMBDA t : StartsWith(t.src, "cid:") /\ Len(t.src) > 4)
    IN [i \in 1..Len(m) |-> SubSeq(m[i].src, 5, Len(m[i].src))]

\* src="attachment:([^"]+)"
attachment_matches(tokens) ==
    LET m == SelectSeq(ImgTags(tokens),
                       LAMBDA t : StartsWith(t.src, "attachment:")
                                  /\ Len(t.src) > 11)
    IN [i \in 1..Len(m) |-> SubSeq(m[i].src, 12, Len(m[i].src))]

\* the srcs of all img tags that are neither data: nor http: nor https:
other_srcs(tokens) ==
    LET m == SelectSeq(ImgTags(tokens),
                       LAMBDA t : ~(\/ StartsWith(t.src, "data:")
                                    \/ StartsWith(t.src, "http:")
                                    \/ StartsWith(t.src, "https:")))
    IN [i \in 1..Len(m) |-> m[i].src]

image_references(email_data) ==
    IF Falsy(email_data.body) THEN <<>>
    ELSE cid_matches(email_data.tokens) \o attachment_matches(email_data.tokens)
         \o other_srcs(email_data.tokens)

image_keywords ==
    <<"see attached image", "image attached", "screenshot", "chart", "graph",
      "diagram", "photo", "picture", "visual", "see below", "attached file",
      "please find attached", "image shows", "as shown in", "refer to image">>

check_for_image_indicators(email_body) ==
    IF Falsy(email_body) THEN <<>>
    ELSE LET email_lower == str_lower(email_body.s)
             kw == SelectSeq(image_keywords,
                             LAMBDA k : Contains(email_lower, k))
         IN (IF Contains(email_lower, "<img") THEN <<"img_tags">> ELSE <<>>)
            \o [i \in 1..Len(kw) |-> "keyword_" \o str_replace(kw[i], " ", "_")]
            \o (IF Contains(email_body.s, "cid:")
                THEN <<"cid_references">> ELSE <<>>)
            \o (IF Contains(email_body.s, "attachment:")
                THEN <<"attachment_references">> ELSE <<>>)

AddEntryAlways(image_content, entry, ocr_result) == Append(image_content, entry)

\* if ocr_result["text"]: image_content.append(...)
AddEntry(image_content, entry, ocr_result) ==
    IF ocr_result.text # "" THEN Append(image_content, entry)
    ELSE image_content

\* The loops over the images; acc holds image_content and the number of
\* text detections asked for so far.
RECURSIVE InlineLoop(_, _, _, _, _)
InlineLoop(matches, i, vision, ocr, acc) ==
    IF i > Len(matches) THEN acc
    ELSE LET m == Base64Match(matches[i].src)
             image_name == "inline_image_" \o NatStr(i) \o "." \o m.img_type
             ocr_result == extract_text_from_image_base64(vision, ocr[acc.k + 1])
             entry == Dict(<<"imageName", "extractedText">>,
                           <<Str(image_name), Str(ocr_result.text)>>)
         IN InlineLoop(matches, i + 1, vision, ocr,
                       [content |-> AddEntry(acc.content, entry, ocr_result),
                        k |-> acc.k + 1])

RECURSIVE UrlLoop(_, _, _, _, _)
UrlLoop(matches, i, vision, ocr, acc) ==
    IF i > Len(matches) THEN acc
    ELSE LET img_url == matches[i].src
             image_name == "external_image_" \o NatStr(i)
             ocr_result == extract_text_from_image_url(vision, ocr[acc.k + 1])
             entry == Dict(<<"imageName", "extractedText", "imageUrl">>,
                           <<Str(image_name), Str(ocr_result.text),
                             Str(img_url)>>)
         IN UrlLoop(matches, i + 1, vision, ocr,
                    [content |-> AddEntry(acc.content, entry, ocr_result),
                     k |-> acc.k + 1])

RECURSIVE AttachmentLoop(_, _, _, _, _)
AttachmentLoop(attachments, i, vision, ocr, acc) ==
    IF i > Len(attachments) THEN acc
    ELSE LET filename == DictGet(attachments[i], "filename", Str(""))
             mime_type == DictGet(attachments[i], "mimeType", Str(""))
         IN IF is_image_attachment(filename, mime_type)
            THEN LET ocr_result ==
                         extract_text_from_image_base64(vision, ocr[acc.k + 1])
                     entry == Dict(<<"imageName", "extractedText">>,
                                   <<filename, Str(ocr_result.text)>>)
                 IN AttachmentLoop(attachments, i + 1, vision, ocr,
                        [content |-> AddEntry(acc.content, entry, ocr_result),
                         k |-> acc.k + 1])
            ELSE AttachmentLoop(attachments, i + 1, vision, ocr, acc)

AttachmentsFirst(email_data, vision, ocr) ==
    LET has_body == ~Falsy(email_data.body)
        c0 == AttachmentLoop(email_data.attachments, 1, vision, ocr,
                             [content |-> <<>>, k |-> 0])
        c1 == IF has_body
              THEN InlineLoop(base64_matches(email_data.tokens), 1, vision, ocr, c0)
              ELSE c0
    IN IF has_body
       THEN UrlLoop(url_matches(email_data.tokens), 1, vision, ocr, c1)
       ELSE c1

\* Checks 1, 2 and 4 in the order of the code.
ImageLoops(email_data, vision, ocr) ==
    LET has_body == ~Falsy(email_data.body)
        c1 == IF has_body
              THEN InlineLoop(base64_matches(email_data.tokens), 1, vision, ocr,
                              [content |-> <<>>, k |-> 0])
              ELSE [content |-> <<>>, k |-> 0]
        c2 == IF has_body
              THEN UrlLoop(url_matches(email_data.tokens), 1, vision, ocr, c1)
              ELSE c1
    IN AttachmentLoop(email_data.attachments, 1, vision, ocr, c2)

\* len(image_content) > 0 or len(image_references) > 0 or has_image_indicators
HasImages(image_content, refs, has_image_indicators) ==
    IF Len(image_content) > 0 THEN Bool(TRUE)
    ELSE IF Len(refs) > 0 THEN Bool(TRUE)
    ELSE List([i \in 1..Len(has_image_indicators) |->
                  Str(has_image_indicators[i])])

process_email_with_images(email_data, vision, ocr) ==
    LET image_content == ImageLoops(email_data, vision, ocr).content
        refs == image_references(email_data)
        has_image_indicators == check_for_image_indicators(email_data.body)
    IN [emailBody |-> email_data.body,
        imageContent |-> image_content,
        hasImages |-> HasImages(image_content, refs, has_image_indicators),
        imageReferences |-> refs,
        imageIndicators |-> has_image_indicators]

(***************************************************************************)
(* One call of process_email_with_images, or of is_image_attachment on one *)
(* attachment, on one email with one course of the text detections.        *)
(***************************************************************************)
MaxTokens == 2

MailTokens ==
    {Text("Hello, see the Chart"),
     Img("data:image/png;base64,QUJD"),
     Img("https://x.io/a.png"),
     Img("cid:logo.png"),
     Img("logo.gif"),
     Img("data:text/plain;base64,QQ")}

AttachmentSet ==
    {Dict(<<"filename", "mimeType", "content">>,
          <<Str("scan.png"), Str("image/png"), Str("QUJD")>>),
     Dict(<<"filename", "content">>, <<Str("photo.JPG"), Str("QUJD")>>),
     Dict(<<"filename", "mimeType">>, <<Str("report.png"), Str("application/pdf")>>),
     Dict(<<"filename", "mimeType">>, <<Str("notes.txt"), Null>>),
     Dict(<<"mimeType">>, <<Str("image/jpeg")>>),
     Dict(<<"filename", "mimeType">>, <<Str("x.gif"), Str("IMAGE/GIF")>>),
     Dict(<<"filename", "mimeType">>, <<Null, Str("")>>),
     Dict(<<>>, <<>>)}

AttachmentLists ==
    {<<>>} \cup {<<a>> : a \in AttachmentSet}
    \cup {<<a, b>> : a \in {x \in AttachmentSet : Len(x.keys) = 3},
                     b \in {x \in AttachmentSet :
                               DictGet(x, "filename", Null) \in
                                   {Str("photo.JPG"), Str("report.png")}}}

\* An email with a body made of the pieces ts, and one whose body is null.
Emails ==
    {[body |-> Str(BodyText(ts)), tokens |-> ts, attachments |-> as] :
        ts \in SeqsUpTo(MailTokens, MaxTokens), as \in AttachmentLists}
    \cup {[body |-> Null, tokens |-> <<>>, attachments |-> as] :
              as \in AttachmentLists}

\* Courses of the text detections: a pattern repeated over the calls.
OcrOutcomes == {OcrText("Invoice 42"), OcrText(""), OcrNoText, OcrError, OcrFetchError, OcrNotImage}

OcrPatterns ==
    {<<o>> : o \in OcrOutcomes}
    \cup {<<OcrText("Invoice 42"), o>> : o \in OcrOutcomes \ {OcrText("Invoice 42")}}
    \cup {<<OcrError, OcrText("Invoice 42")>>}

\* The Vision client is there or not (VISION_API_AVAILABLE); without it no
\* detection is made, whatever the images hold.
Environments ==
    {[vision |-> TRUE, pat |-> pat] : pat \in OcrPatterns}
    \cup {[vision |-> FALSE, pat |-> <<OcrText("Invoice 42")>>]}

OcrCalls(email_data) ==
    (IF Falsy(email_data.body) THEN 0
     ELSE Len(base64_matches(email_data.tokens))
          + Len(url_matches(email_data.tokens)))
    + Len(email_data.attachments)

OcrCourse(pat, n) == [k \in 1..n |-> pat[((k - 1) % Len(pat)) + 1]]

NoOutput ==
    [emailBody |-> Null, imageContent |-> <<>>, hasImages |-> Null,
     imageReferences |-> <<>>, imageIndicators |-> <<>>]

InitMail ==
    /\ arg = Null
    /\ pc = "idle"
    /\ empty = FALSE
    /\ result = NoResult
    /\ title = ""
    /\ fragment = ""
    /\ calls = <<>>
    /\ overlap = FALSE
    /\ mail \in {[email |-> e, vision |-> c.vision,
                  ocr |-> OcrCourse(c.pat, OcrCalls(e)),
                  pc |-> "idle", out |-> NoOutput, att |-> 0, image |-> FALSE] :
                     e \in Emails, c \in Environments}
    /\ http = <<>>

ProcessEmailWithImages ==
    /\ mail.pc = "idle"
    /\ mail' = [mail EXCEPT
                   !.out = process_email_with_images(mail.email, mail.vision,
                                                     mail.ocr),
                   !.pc = "processed"]
    /\ UNCHANGED <<arg, pc, empty, result, title, fragment, calls, overlap, http>>

IsImageAttachment ==
    /\ mail.pc = "idle"
    /\ \E i \in 1..Len(mail.email.attachments) :
           mail' = [mail EXCEPT
                       !.att = i,
                       !.image = is_image_attachment(
                                     DictGet(mail.email.attachments[i],
                                             "filename", Str("")),
                                     DictGet(mail.email.attachments[i],
                                             "mimeType", Str(""))),
                       !.pc = "decided"]
    /\ UNCHANGED <<arg, pc, empty, result, title, fragment, calls, overlap, http>>

NextMail == ProcessEmailWithImages \/ IsImageAttachment

SpecMail == InitMail /\ [][NextMail]_vars

(***************************************************************************)
(* The requests.  A request goes through authenticate_jwt and then through *)
(* the handler of its route, one step per call to another service; log     *)
(* lists those calls in the order they were made.  What the other services *)
(* answer (the email service, the Vision API, the model) is drawn when the *)
(* request arrives.                                                        *)
(***************************************************************************)

\* jwt.decode(token, JWT_SECRET, algorithms=['HS256']): the tokens signed
\* with the secret are good.jwt, still valid, and old.jwt, expired.
jwt_decode(token) ==
    IF token = "good.jwt" THEN "ok"
    ELSE IF token = "old.jwt" THEN "expired"
    ELSE "invalid"

authenticate_jwt_no_expiry(header) ==
    IF Falsy(header) THEN [ok |-> FALSE, status |-> 401, message |-> "No token provided"]
    ELSE LET token == IF StartsWith(header.s, "Bearer ")
                      THEN SubSeq(header.s, 8, Len(header.s)) ELSE header.s
         IN IF jwt_decode(token) = "invalid"
            THEN [ok |-> FALSE, status |-> 401, message |-> "Invalid token"]
            ELSE [ok |-> TRUE, status |-> 0, message |-> ""]

authenticate_jwt(header) ==
    IF Falsy(header) THEN [ok |-> FALSE, status |-> 401, message |-> "No token provided"]
    ELSE LET token == IF StartsWith(header.s, "Bearer ")
                      THEN SubSeq(header.s, 8, Len(header.s)) ELSE header.s
         IN IF jwt_decode(token) = "expired"
            THEN [ok |-> FALSE, status |-> 401, message |-> "Token has expired"]
            ELSE IF jwt_decode(token) = "invalid"
            THEN [ok |-> FALSE, status |-> 401, message |-> "Invalid token"]
            ELSE [ok |-> TRUE, status |-> 0, message |-> ""]

\* json.loads on the texts the model is taken to return.
json_loads(text) ==
    CASE text = "{\"aB\": \"hi\", \"legalImpact\": [\"N/A\"]}" ->
           [ok |-> TRUE, value |-> Dict(<<"aB", "legalImpact">>,
                                        <<Str("hi"), List(<<Str("N/A")>>)>>)]
      [] text = "{\"actionItems\": {\"x\": {\"owner\": \"Finance\"}}}" ->
           [ok |-> TRUE,
            value |-> Dict(<<"actionItems">>,
                           <<Dict(<<"x">>, <<Dict(<<"owner">>,
                                                  <<Str("Finance")>>)>>)>>)]
      [] text = "{}" -> [ok |-> TRUE, value |-> Dict(<<>>, <<>>)]
      [] text = "[1, 2]" -> [ok |-> TRUE, value |-> List(<<Num(1), Num(2)>>)]
      [] text = "{\"aB\": \"hi\"}" -> [ok |-> TRUE, value |-> Dict(<<"aB">>, <<Str("hi")>>)]
      [] text = "{\"a_b\": null}" -> [ok |-> TRUE, value |-> Dict(<<"a_b">>, <<Null>>)]
      [] OTHER -> [ok |-> FALSE, value |-> Null]

\* Position of the last occurrence of sub in s, 0 when there is none.
RFind(s, sub) ==
    IF Contains(s, sub)
    THEN CHOOSE q \in 1..(Len(s) - Len(sub) + 1) :
             /\ SubSeq(s, q, q + Len(sub) - 1) = sub
             /\ \A r \in (q + 1)..(Len(s) - Len(sub) + 1) :
                    SubSeq(s, r, r + Len(sub) - 1) # sub
    ELSE 0

NoPayload == [success |-> FALSE, summary_json |-> Null, html |-> NoResult]

Answer(h, status, message) ==
    [h EXCEPT !.pc = "answered", !.status = status, !.message = message]

AnswerOk(h, payload) ==
    [h EXCEPT !.pc = "answered", !.status = 200, !.payload = payload]

NoContentNever(body, image_content) == FALSE

\* if not body and not image_content
NoContent(body, image_content) == Falsy(body) /\ image_content = <<>>

SummarizeTextLenient(h, raw_json_string) ==
    AnswerOk(h, [success |-> TRUE,
                 summary_json |-> json_loads(raw_json_string).value,
                 html |-> generate_html_breakdown(
                              json_loads(raw_json_string).value)])

\* summarize_email from json.loads(raw_json_string) on.
SummarizeText(h, raw_json_string) ==
    LET parsed == json_loads(raw_json_string)
    IN IF ~parsed.ok THEN Answer(h, 500, "AI returned invalid JSON.")
       ELSE AnswerOk(h, [success |-> TRUE, summary_json |-> parsed.value,
                         html |-> generate_html_breakdown(parsed.value)])

\* summarize_email_json from raw_summary.strip() on; convert_json_to_html is
\* defined nowhere in the module, so the call raises NameError, which the
\* except Exception around the parsing turns into a 500.
SummarizeJsonText(h, raw_summary) ==
    LET cleaned_response == str_strip(raw_summary)
        json_start == Find(cleaned_response, "{") - 1
        json_end == RFind(cleaned_response, "}")
        json_str == SubSeq(cleaned_response, json_start + 1, json_end)
    IN IF json_start >= 0 /\ json_end > json_start
       THEN IF json_loads(json_str).ok
            THEN Answer(h, 500, "Error processing AI response")
            ELSE Answer(h, 422, "AI returned invalid JSON format")
       ELSE Answer(h, 422, "AI did not return JSON format")

ModelTexts ==
    {"{\"aB\": \"hi\", \"legalImpact\": [\"N/A\"]}", "{\"actionItems\": {\"x\": {\"owner\": \"Finance\"}}}", "{}", "[1, 2]", " Here: {\"aB\": \"hi\"} ", "not json", "{oops}", "{\"a_b\": null}", "{\"aB\": "}

ModelAnswers ==
    {[kind |-> k, text |-> ""] :
        k \in {"http_error", "network_error", "bad_json", "no_candidates",
               "malformed"}}
    \cup {[kind |-> "text", text |-> t] : t \in ModelTexts}

FetchAnswers == {"ok", "http_error", "network_error", "bad_json"}

Headers ==
    {Null, Str(""), Str("good.jwt"), Str("Bearer good.jwt"),
     Str("Bearer old.jwt"), Str("old.jwt"), Str("bad"),
     Str("bearer good.jwt"), Str("Bearer Bearer good.jwt"), Str("Bearer ")}

\* The emails the email service answers with, each with a course of the
\* text detections.
FetchedEmails ==
    {[email |-> [body |-> Str(""), tokens |-> <<>>, attachments |-> <<>>],
      vision |-> TRUE, ocr |-> <<>>],
     [email |-> [body |-> Null, tokens |-> <<>>, attachments |-> <<>>],
      vision |-> TRUE, ocr |-> <<>>],
     [email |-> [body |-> Str("Hello"), tokens |-> <<Text("Hello")>>,
                 attachments |-> <<>>],
      vision |-> TRUE, ocr |-> <<>>],
     [email |-> [body |-> Str(""), tokens |-> <<>>,
                 attachments |-> <<Dict(<<"filename", "mimeType">>,
                                        <<Str("scan.png"), Str("image/png")>>)>>],
      vision |-> TRUE, ocr |-> <<OcrText("Invoice 42")>>],
     [email |-> [body |-> Str(""), tokens |-> <<>>,
                 attachments |-> <<Dict(<<"filename", "mimeType">>,
                                        <<Str("scan.png"), Str("image/png")>>)>>],
      vision |-> TRUE, ocr |-> <<OcrError>>],
     [email |-> [body |-> Str(""), tokens |-> <<>>,
                 attachments |-> <<Dict(<<"filename", "mimeType">>,
                                        <<Str("scan.png"), Str("image/png")>>)>>],
      vision |-> FALSE, ocr |-> <<OcrText("Invoice 42")>>]}

\* Bodies posted to /api/test/json-to-html.
PostedData ==
    {Null, Dict(<<>>, <<>>), Dict(<<"other">>, <<Num(1)>>),
     Dict(<<"json_data">>, <<Dict(<<>>, <<>>)>>),
     Dict(<<"json_data">>, <<Dict(<<"aB">>, <<Str("hi")>>)>>),
     Dict(<<"json_data">>, <<List(<<Num(1)>>)>>)}

NoFetched ==
    [email |-> [body |-> Null, tokens |-> <<>>, attachments |-> <<>>],
     vision |-> FALSE, ocr |-> <<>>]

Request(route, header, key, fetch, fetched, model, data) ==
    [route |-> route, header |-> header, key |-> key, fetch |-> fetch,
     email |-> fetched.email, vision |-> fetched.vision, ocr |-> fetched.ocr,
     model |-> model, data |-> data,
     pc |-> "received", ran |-> FALSE, log |-> <<>>, processed |-> NoOutput,
     status |-> 0, message |-> "", payload |-> NoPayload]

Requests ==
    {Request(r, hd, k, f, e, m, Null) :
        r \in {"summarize", "summarize_json"}, hd \in Headers, k \in BOOLEAN,
        f \in FetchAnswers, e \in FetchedEmails, m \in ModelAnswers}
    \cup {Request("json_to_html", hd, k, "ok", NoFetched,
                  [kind |-> "no_candidates", text |-> ""], d) :
             hd \in Headers, k \in BOOLEAN, d \in PostedData}
    \cup {Request("sample_json_html", hd, k, "ok", NoFetched,
                  [kind |-> "no_candidates", text |-> ""], Null) :
             hd \in Headers, k \in BOOLEAN}

InitHttp ==
    /\ arg = Null
    /\ pc = "idle"
    /\ empty = FALSE
    /\ result = NoResult
    /\ title = ""
    /\ fragment = ""
    /\ calls = <<>>
    /\ overlap = FALSE
    /\ mail = <<>>
    /\ http \in Requests

Rest == <<arg, pc, empty, result, title, fragment, calls, overlap, mail>>

\* decorated_function: answer 401 or run the handler.
Authenticate ==
    /\ http.pc = "received"
    /\ LET a == authenticate_jwt(http.header)
       IN http' = IF a.ok THEN [http EXCEPT !.pc = "handler", !.ran = TRUE]
                  ELSE Answer(http, a.status, a.message)
    /\ UNCHANGED Rest

\* if not GEMINI_API_KEY
CheckApiKey ==
    /\ http.pc = "handler"
    /\ http.route \in {"summarize", "summarize_json"}
    /\ http' = IF ~http.key
               THEN Answer(http, 500, "AI service is not properly configured")
               ELSE [http EXCEPT !.pc = "fetch"]
    /\ UNCHANGED Rest

\* requests.get of the email and response.json()
FetchEmail ==
    /\ http.pc = "fetch"
    /\ LET h == [http EXCEPT !.log = Append(@, "fetch")]
       IN IF http.fetch = "ok" THEN http' = [h EXCEPT !.pc = "process"]
          ELSE IF http.route = "summarize"
          THEN IF http.fetch \in {"http_error", "network_error"}
               THEN http' = Answer(h, 500, "Error communicating with a service.")
               ELSE \E m \in {"Error communicating with a service.",
                              "AI returned invalid JSON."} :
                        http' = Answer(h, 500, m)
          ELSE IF http.fetch = "http_error"
               THEN http' = Answer(h, 404, "Failed to fetch email content")
               ELSE IF http.fetch = "network_error"
               THEN http' = Answer(h, 500, "Failed to fetch email content")
               ELSE \E m \in {"Failed to fetch email content",
                              "Failed to generate email summary"} :
                        http' = Answer(h, 500, m)
    /\ UNCHANGED Rest

\* process_email_with_images and the test for content
ProcessEmail ==
    /\ http.pc = "process"
    /\ LET processed_data ==
               process_email_with_images(http.email, http.vision, http.ocr)
           h == [http EXCEPT
                    !.processed = processed_data,
                    !.log = IF http.vision
                            THEN @ \o [k \in 1..Len(http.ocr) |-> "ocr"]
                            ELSE @]
       IN http' = IF NoContent(processed_data.emailBody,
                               processed_data.imageContent)
                  THEN Answer(h, 400,
                              IF http.route = "summarize"
                              THEN "Could not find text content to summarize"
                              ELSE "Could not find text content in this email to summarize")
                  ELSE [h EXCEPT !.pc = "model"]
    /\ UNCHANGED Rest

\* requests.post to the model and everything after it
CallModel ==
    /\ http.pc = "model"
    /\ LET h == [http EXCEPT !.log = Append(@, "model")]
           k == http.model.kind
       IN IF http.route = "summarize"
          THEN CASE k \in {"http_error", "network_error"} ->
                      http' = Answer(h, 500, "Error communicating with a service.")
                 [] k = "bad_json" ->
                      \E m \in {"Error communicating with a service.",
                                "AI returned invalid JSON."} :
                          http' = Answer(h, 500, m)
                 [] k = "no_candidates" ->
                      http' = Answer(h, 500, "Invalid response format from Gemini API")
                 [] k = "malformed" ->
                      http' = Answer(h, 500, "An internal server error occurred.")
                 [] OTHER -> http' = SummarizeText(h, http.model.text)
          ELSE CASE k = "http_error" ->
                      http' = Answer(h, 500, "Failed to generate email summary. Please check your Gemini API configuration.")
                 [] k = "network_error" ->
                      http' = Answer(h, 500, "Failed to fetch email content")
                 [] k = "bad_json" ->
                      \E m \in {"Failed to fetch email content",
                                "Failed to generate email summary"} :
                          http' = Answer(h, 500, m)
                 [] k = "no_candidates" ->
                      http' = Answer(h, 500, "Unexpected response format from Gemini API")
                 [] k = "malformed" ->
                      http' = Answer(h, 500, "Failed to generate email summary")
                 [] OTHER -> http' = SummarizeJsonText(h, http.model.text)
    /\ UNCHANGED Rest

\* test_json_to_html; the call of convert_json_to_html raises NameError.
TestJsonToHtml ==
    /\ http.pc = "handler"
    /\ http.route = "json_to_html"
    /\ http' = IF Falsy(http.data)
               THEN Answer(http, 400, "No JSON data provided")
               ELSE IF Falsy(DictGet(http.data, "json_data", Null))
               THEN Answer(http, 400, "json_data field is required")
               ELSE Answer(http, 500, "Failed to convert JSON to HTML: name 'convert_json_to_html' is not defined")
    /\ UNCHANGED Rest

\* test_sample_json_html; the call of convert_json_to_html raises NameError.
TestSampleJsonHtml ==
    /\ http.pc = "handler"
    /\ http.route = "sample_json_html"
    /\ http' = Answer(http, 500, "Failed to convert sample JSON: name 'convert_json_to_html' is not defined")
    /\ UNCHANGED Rest

NextHttp ==
    \/ Authenticate
    \/ CheckApiKey
    \/ FetchEmail
    \/ ProcessEmail
    \/ CallModel
    \/ TestJsonToHtml
    \/ TestSampleJsonHtml

SpecHttp == InitHttp /\ [][NextHttp]_vars

(***************************************************************************)
(* Vocabulary of the properties.                                           *)
(***************************************************************************)
Rendered == pc = "rendered"
Checked == pc = "checked"
IsRecord(v) == v.t = "dict"

KeySet(ks) == {ks[i] : i \in 1..Len(ks)}

Container(body) == "<div class=\"summary-container\">" \o body \o "</div>"
Placeholder == "<p>No summary data available.</p>"
Heading(k) == "<h4>" \o format_title(k) \o "</h4>"

BreakdownOf(res, k) ==
    res.breakdown_vals[CHOOSE j \in 1..Len(res.breakdown_keys) :
                           res.breakdown_keys[j] = k]

\* The positions of R whose value is not empty, in insertion order.
NonEmptyIdx(R) ==
    SelectSeq([i \in 1..Len(R.keys) |-> i],
              LAMBDA i : ~is_section_empty(R.items[i]))

ExpectedParts(R) ==
    [j \in 1..Len(NonEmptyIdx(R)) |->
        Heading(R.keys[NonEmptyIdx(R)[j]])
        \o render_section_content(R.items[NonEmptyIdx(R)[j]])]

\* R with its i-th key removed.
Without(R, i) ==
    Dict(SubSeq(R.keys, 1, i - 1) \o SubSeq(R.keys, i + 1, Len(R.keys)),
         SubSeq(R.items, 1, i - 1) \o SubSeq(R.items, i + 1, Len(R.items)))

C2_OmissionByHeadingText ==
    (Rendered /\ IsRecord(arg)) =>
        \A i \in 1..Len(arg.keys) :
            is_section_empty(arg.items[i]) =>
                /\ arg.keys[i] \notin KeySet(result.breakdown_keys)
                /\ ~Contains(result.full_html, Heading(arg.keys[i]))

(***************************************************************************)
(* C2 amended: for every top-level key k of R whose value is empty,        *)
(* breakdown has no entry for k and k contributes nothing to the output:   *)
(* breakdown and full_html are those of R with k removed (full_html being  *)
(* the empty container when k was the only key).                           *)
(***************************************************************************)
C2_Omission ==
    (Rendered /\ IsRecord(arg)) =>
        \A i \in 1..Len(arg.keys) :
            is_section_empty(arg.items[i]) =>
                LET rest == generate_html_breakdown(Without(arg, i))
                IN /\ arg.keys[i] \notin KeySet(result.breakdown_keys)
                   /\ result.breakdown_keys = rest.breakdown_keys
                   /\ result.breakdown_vals = rest.breakdown_vals
                   /\ result.full_html =
                        IF Len(arg.keys) = 1 THEN Container("")
                        ELSE rest.full_html

C2_Witness ==
    /\ Rendered
    /\ IsRecord(arg)
    /\ arg.keys = <<"aB", "a_b">>
    /\ is_section_empty(arg.items[1])
    /\ result.breakdown_keys = <<"a_b">>
    /\ Contains(result.full_html, Heading("aB"))

(***************************************************************************)
(* C3: for a record R with at least one key, the keys of breakdown are     *)
(* exactly the top-level keys of R whose value is not empty; breakdown[k]  *)
(* is render_section_content(R[k]) inside the container, and full_html is  *)
(* one container around, for each such k, the heading of format_title(k)   *)
(* followed by the same fragment.                                          *)
(***************************************************************************)
C3_BreakdownAndFullHtml ==
    (Rendered /\ IsRecord(arg) /\ Len(arg.keys) > 0) =>
        /\ KeySet(result.breakdown_keys)
             = {arg.keys[i] : i \in {j \in 1..Len(arg.keys) :
                                        ~is_section_empty(arg.items[j])}}
        /\ \A i \in 1..Len(arg.keys) :
               ~is_section_empty(arg.items[i]) =>
                   BreakdownOf(result, arg.keys[i])
                     = Container(render_section_content(arg.items[i]))
        /\ result.full_html = Container(Join(ExpectedParts(arg)))

C3_Witness ==
    /\ Rendered
    /\ IsRecord(arg)
    /\ arg.keys = <<"aB", "legalImpact">>
    /\ arg.items[2] = Dict(<<>>, <<>>)
    /\ result.breakdown_keys = <<"aB">>

(***************************************************************************)
(* C4: the sections of full_html stand in the insertion order of the       *)
(* non-empty keys of R: each one starts where the one before it ends, and  *)
(* nothing else lies between the container's opening and closing.          *)
(***************************************************************************)
RECURSIVE PartsInOrder(_, _, _)
PartsInOrder(html, parts, off) ==
    IF parts = <<>> THEN SubSeq(html, off, Len(html)) = "</div>"
    ELSE /\ SubSeq(html, off, off + Len(Head(parts)) - 1) = Head(parts)
         /\ PartsInOrder(html, Tail(parts), off + Len(Head(parts)))

C4_OrderPreserved ==
    (Rendered /\ IsRecord(arg) /\ Len(arg.keys) > 0) =>
        /\ Len(result.breakdown_keys) = Len(NonEmptyIdx(arg))
        /\ \A j \in 1..Len(NonEmptyIdx(arg)) :
               result.breakdown_keys[j] = arg.keys[NonEmptyIdx(arg)[j]]
        /\ PartsInOrder(result.full_html, ExpectedParts(arg),
                        Len(Container("")) - Len("</div>") + 1)

C4_Witness ==
    /\ Rendered
    /\ IsRecord(arg)
    /\ arg.keys = <<"legalImpact", "aB">>
    /\ result.breakdown_keys = <<"legalImpact", "aB">>
    /\ arg.items[1] # arg.items[2]

(***************************************************************************)
(* C5: when the input is not a record (a string, a list, a number, a       *)
(* boolean or null), the result is an empty breakdown and the 'no summary  *)
(* data available' placeholder, and nothing is raised.                     *)
(***************************************************************************)
C5_NonRecordGivesPlaceholder ==
    (pc \in {"rendered", "raised"} /\ ~IsRecord(arg)) =>
        /\ Rendered
        /\ result.exc = ""
        /\ result.breakdown_keys = <<>>
        /\ result.breakdown_vals = <<>>
        /\ result.full_html = Placeholder

C5_Witness == Rendered /\ arg = Str("hi") /\ result.full_html = Placeholder

(***************************************************************************)
(* C6 as stated: for the empty record, breakdown is empty and full_html is *)
(* the empty container.                                                    *)
(***************************************************************************)
C6_EmptyRecordGivesContainer ==
    (Rendered /\ arg = Dict(<<>>, <<>>)) =>
        /\ result.breakdown_keys = <<>>
        /\ result.full_html = Container("")

(***************************************************************************)
(* C6 amended: for the empty record, breakdown is empty and full_html is   *)
(* the 'no summary data available' placeholder, not the empty container.   *)
(***************************************************************************)
C6_EmptyRecordGivesPlaceholder ==
    (pc \in {"rendered", "raised"} /\ arg = Dict(<<>>, <<>>)) =>
        /\ Rendered
        /\ result.breakdown_keys = <<>>
        /\ result.full_html = Placeholder
        /\ result.full_html # Container("")

C6_Witness == Rendered /\ arg = Dict(<<>>, <<>>) /\ result.exc = ""

(***************************************************************************)
(* C7: a string is empty exactly when, with its leading and trailing       *)
(* whitespace removed, it is "" or reads n/a in any mix of cases.          *)
(***************************************************************************)
BlankOrNA(s) ==
    \E a \in 0..Len(s) : \E b \in a..Len(s) :
        /\ \A q \in 1..a : IsSpace(Char(s, q))
        /\ \A q \in (b + 1)..Len(s) : IsSpace(Char(s, q))
        /\ SubSeq(s, a + 1, b) \in {"", "n/a", "N/a", "n/A", "N/A"}

C7_StringEmptiness ==
    (Checked /\ arg.t = "str") => (empty <=> BlankOrNA(arg.s))

C7_Witness == Checked /\ arg = Str(" n/A\t") /\ empty

(***************************************************************************)
(* C8: a record is empty exactly when every value reached from it through  *)
(* nested records, at any depth, is empty; the record without keys is      *)
(* empty.                                                                  *)
(***************************************************************************)
RECURSIVE RecordLeaves(_)
RecordLeaves(v) ==
    IF IsRecord(v)
    THEN UNION {RecordLeaves(v.items[i]) : i \in 1..Len(v.items)}
    ELSE {v}

C8_RecordEmptiness ==
    (Checked /\ IsRecord(arg)) =>
        (empty <=> \A leaf \in RecordLeaves(arg) : is_section_empty(leaf))

C8_Witness == Checked /\ arg = Wide(Str("hi"), MaxDepth) /\ ~empty

(***************************************************************************)
(* C9: a list is empty exactly when it has no elements, whatever the       *)
(* elements are; a top-level section holding a non-empty list, even of     *)
(* empty-looking elements, is rendered.                                    *)
(***************************************************************************)
C9_ListEmptiness ==
    /\ (Checked /\ arg.t = "list") => (empty <=> Len(arg.items) = 0)
    /\ (Rendered /\ IsRecord(arg)) =>
           \A i \in 1..Len(arg.keys) :
               (arg.items[i].t = "list" /\ Len(arg.items[i].items) > 0) =>
                   /\ arg.keys[i] \in KeySet(result.breakdown_keys)
                   /\ Contains(result.full_html,
                               Heading(arg.keys[i])
                               \o render_list_of_dicts(arg.items[i]))

C9_Witness ==
    /\ Rendered
    /\ IsRecord(arg)
    /\ arg.keys = <<"legalImpact">>
    /\ arg.items = <<List(<<Str("N/A")>>)>>
    /\ result.breakdown_keys = <<"legalImpact">>

(***************************************************************************)
(* C10: null, numbers and booleans are empty; a top-level section holding  *)
(* one, or a record made only of them and of other empty values, is left   *)
(* out of breakdown and of full_html.                                      *)
(***************************************************************************)
IsOther(v) == v.t \in {"null", "num", "bool"}

C10_OtherValuesAreEmpty ==
    /\ (Checked /\ IsOther(arg)) => empty
    /\ (Rendered /\ IsRecord(arg)) =>
           \A i \in 1..Len(arg.keys) :
               (\A leaf \in RecordLeaves(arg.items[i]) :
                    IsOther(leaf) \/ is_section_empty(leaf)) =>
                   /\ arg.keys[i] \notin KeySet(result.breakdown_keys)
                   /\ result.full_html =
                        IF Len(arg.keys) = 1 THEN Container("")
                        ELSE generate_html_breakdown(Without(arg, i)).full_html

C10_Witness ==
    /\ Rendered
    /\ IsRecord(arg)
    /\ arg.keys = <<"legalImpact", "aB">>
    /\ arg.items = <<Num(7), Str("hi")>>
    /\ result.breakdown_keys = <<"aB">>

(***************************************************************************)
(* C11 as stated: a scalar is empty exactly when it is null, the empty     *)
(* string or n/a in any mix of cases (whitespace around it aside); a       *)
(* number or a boolean is not empty, and a top-level section holding one   *)
(* is rendered.                                                            *)
(***************************************************************************)
IsScalar(v) == v.t \in {"str", "num", "bool", "null"}

C11_ScalarEmptinessAsStated ==
    /\ (Checked /\ IsScalar(arg)) =>
           (empty <=> (arg.t = "null" \/ (arg.t = "str" /\ BlankOrNA(arg.s))))
    /\ (Rendered /\ IsRecord(arg)) =>
           \A i \in 1..Len(arg.keys) :
               arg.items[i].t \in {"num", "bool"} =>
                   arg.keys[i] \in KeySet(result.breakdown_keys)

(***************************************************************************)
(* C11 amended: a scalar is empty exactly when it is not a string (null,   *)
(* any number, any boolean) or is a string that, trimmed, is "" or n/a in  *)
(* any mix of cases; a top-level section holding a number or a boolean is  *)
(* therefore omitted.                                                      *)
(***************************************************************************)
C11_ScalarEmptiness ==
    /\ (Checked /\ IsScalar(arg)) =>
           (empty <=> (arg.t # "str" \/ BlankOrNA(arg.s)))
    /\ (Rendered /\ IsRecord(arg)) =>
           \A i \in 1..Len(arg.keys) :
               arg.items[i].t \in {"num", "bool"} =>
                   arg.keys[i] \notin KeySet(result.breakdown_keys)

C11_Witness ==
    /\ Rendered
    /\ IsRecord(arg)
    /\ arg.keys = <<"aB">>
    /\ arg.items = <<Num(7)>>
    /\ result.breakdown_keys = <<>>

(***************************************************************************)
(* C14: format_title(key) is the title-cased form of key after a space is  *)
(* put before every upper-case letter that is not first and every          *)
(* underscore is replaced by a space: "executiveSummary" gives             *)
(* "Executive Summary", "key_message" gives "Key Message", "a" gives "A"   *)
(* and "" gives "".                                                        *)
(***************************************************************************)
Titled == pc = "titled"

IsLetter(c) == IsUpper(c) \/ IsLower(c)

Expanded(k) ==
    Join([i \in 1..Len(k) |->
            IF Char(k, i) = "_" THEN " "
            ELSE IF i > 1 /\ IsUpper(Char(k, i)) THEN " " \o Char(k, i)
            ELSE Char(k, i)])

TitleCased(e) ==
    Join([j \in 1..Len(e) |->
            IF ~IsLetter(Char(e, j)) THEN Char(e, j)
            ELSE IF j > 1 /\ IsLetter(Char(e, j - 1))
            THEN LowerChar(Char(e, j))
            ELSE UpperChar(Char(e, j))])

C14_FormatTitle ==
    Titled =>
        /\ title = TitleCased(Expanded(arg.s))
        /\ arg.s = "executiveSummary" => title = "Executive Summary"
        /\ arg.s = "key_message" => title = "Key Message"
        /\ arg.s = "a" => title = "A"
        /\ arg.s = "" => title = ""

C14_Witness ==
    Titled /\ arg.s = "executiveSummary" /\ title = "Executive Summary"

(***************************************************************************)
(* C15: for a record section, render_section_content emits, for each field *)
(* in insertion order, a sub-heading holding format_title(field), followed *)
(* by the N/A placeholder whenever the field value is falsy and not a      *)
(* boolean (null, "", 0, [], {}).                                          *)
(***************************************************************************)
SectionDone == pc = "section"

NAPlaceholder == "<p><em>N/A</em></p>"

DisplayEmpty(v) ==
    \/ v.t = "null"
    \/ v.t = "str" /\ v.s = ""
    \/ v.t = "num" /\ v.n = 0
    \/ v.t \in {"list", "dict"} /\ Len(v.items) = 0

SubHeading(k) == "<h5>" \o format_title(k) \o "</h5>"

\* The field pieces of a record section: the sub-heading, then the
\* placeholder for a display-empty value and the list renderer's output for
\* any other.
FieldPieces(data) ==
    [i \in 1..Len(data.keys) |->
        SubHeading(data.keys[i])
        \o (IF DisplayEmpty(data.items[i]) THEN NAPlaceholder
            ELSE render_list_of_dicts(data.items[i]))]

C15_RecordSectionFields ==
    /\ (SectionDone /\ IsRecord(arg)) => fragment = Join(FieldPieces(arg))
    /\ (Rendered /\ arg \in SectionRecords
                 /\ ~is_section_empty(arg.items[1])) =>
           result.full_html
             = Container(Heading(arg.keys[1])
                         \o Join(FieldPieces(arg.items[1])))

C15_Witness ==
    /\ Rendered
    /\ arg = Dict(<<"actionItems">>,
                  <<Dict(<<"keyMessage", "x">>, <<Str("hi"), Null>>)>>)
    /\ Contains(result.full_html, SubHeading("x") \o NAPlaceholder)

(***************************************************************************)
(* C16: in a record section a field whose value is boolean false is not    *)
(* display-empty: its sub-heading is followed by its stringified value in  *)
(* a paragraph, not by the N/A placeholder.                                *)
(***************************************************************************)
C16_FalseShownAsValue ==
    (Rendered /\ arg \in SectionRecords /\ ~is_section_empty(arg.items[1])) =>
        \A i \in 1..Len(arg.items[1].keys) :
            arg.items[1].items[i] = Bool(FALSE) =>
                /\ Contains(result.full_html,
                            SubHeading(arg.items[1].keys[i])
                            \o "<p>False</p>")
                /\ ~Contains(result.full_html,
                             SubHeading(arg.items[1].keys[i])
                             \o NAPlaceholder)

(***************************************************************************)
(* C17 as stated: in a record section every non-display-empty field value  *)
(* that is not a list (a string, a number or a nested record) is           *)
(* stringified directly into a single paragraph.                           *)
(***************************************************************************)
C17_NonListFieldsStringified ==
    (SectionDone /\ IsRecord(arg)) =>
        \A i \in 1..Len(arg.keys) :
            (arg.items[i].t \in {"str", "num", "dict"}
             /\ ~DisplayEmpty(arg.items[i])) =>
                Contains(fragment,
                         SubHeading(arg.keys[i])
                         \o "<p>" \o py_str(arg.items[i]) \o "</p>")

(***************************************************************************)
(* C17 amended: in a record section every non-display-empty field value is *)
(* handed to the list renderer: a string or a number comes out stringified *)
(* in a single paragraph, a non-empty list as an item list, and a nested   *)
(* non-empty record as an item list of one card holding one labelled line  *)
(* per field, not as a stringified paragraph.                              *)
(***************************************************************************)
CardLine(k, v) ==
    "<div><strong>" \o format_title(k) \o ":</strong> "
    \o (IF v.t = "list"
        THEN "<ul>"
             \o Join([j \in 1..Len(v.items) |->
                        "<li>" \o py_str(v.items[j]) \o "</li>"])
             \o "</ul>"
        ELSE py_str(v))
    \o "</div>"

Entry(item) ==
    IF IsRecord(item)
    THEN "<li class=\"item-card\">"
         \o Join([j \in 1..Len(item.keys) |->
                    CardLine(item.keys[j], item.items[j])])
         \o "</li>"
    ELSE "<li>" \o py_str(item) \o "</li>"

ItemList(xs) ==
    "<ul class=\"item-list\">" \o Join([i \in 1..Len(xs) |-> Entry(xs[i])])
    \o "</ul>"

C17_FieldsThroughListRenderer ==
    (SectionDone /\ IsRecord(arg)) =>
        \A i \in 1..Len(arg.keys) :
            LET v == arg.items[i]
                shown(piece) ==
                    Contains(fragment, SubHeading(arg.keys[i]) \o piece)
            IN /\ (v.t \in {"str", "num"} /\ ~DisplayEmpty(v)) =>
                      shown("<p>" \o py_str(v) \o "</p>")
               /\ (v.t = "list" /\ ~DisplayEmpty(v)) => shown(ItemList(v.items))
               /\ (v.t = "dict" /\ ~DisplayEmpty(v)) =>
                      /\ shown(ItemList(<<v>>))
                      /\ ~shown("<p>" \o py_str(v) \o "</p>")

C17_Witness ==
    /\ SectionDone
    /\ arg = Dict(<<"x", "keyMessage">>,
                  <<Dict(<<"owner">>, <<Str("Finance")>>), Str("hi")>>)
    /\ Contains(fragment, "<li class=\"item-card\">")

(***************************************************************************)
(* C18 as stated: for every record r, the record without fields included,  *)
(* render_list_of_dicts(r) is the same output as render_list_of_dicts([r]).*)
(***************************************************************************)
Listed == pc = "listed"

CountOf(s, sub) ==
    Cardinality({q \in 1..(Len(s) - Len(sub) + 1) :
                    SubSeq(s, q, q + Len(sub) - 1) = sub})

C19_ListEntries ==
    (Listed /\ arg.t = "list" /\ Len(arg.items) > 0) =>
        /\ fragment = ItemList(arg.items)
        /\ CountOf(fragment, "<li class=\"item-card\">")
             = Cardinality({i \in 1..Len(arg.items) : IsRecord(arg.items[i])})
        /\ \A i \in 1..Len(arg.items) :
               (IsRecord(arg.items[i])
                /\ "deadline" \in KeySet(arg.items[i].keys)) =>
                   Contains(fragment, "<div><strong>Deadline:</strong> N/A</div>")

C19_Witness ==
    /\ Listed
    /\ arg.t = "list"
    /\ Len(arg.items) = MaxLen
    /\ arg.items[1].keys = <<"tags", "owner", "done">>
    /\ arg.items[2].keys = <<"description", "deadline">>
    /\ Contains(fragment, "<ul><li>a</li><li>['b']</li><li>None</li></ul>")

(***************************************************************************)
(* C12: calling generate_html_breakdown again on the same unchanged record *)
(* gives the same breakdown and the same full_html as the call before, and *)
(* two calls on equal records give equal results, whatever ran earlier or  *)
(* in between.                                                             *)
(***************************************************************************)
C12_SameInputSameOutput ==
    /\ \A c \in DOMAIN calls :
           (calls[c].pc = "done" /\ calls[c].runs > 1) =>
               calls[c].ret = calls[c].last
    /\ \A c, d \in DOMAIN calls :
           (calls[c].pc = "done" /\ calls[d].pc = "done"
            /\ calls[c].arg = calls[d].arg) =>
               calls[c].ret = calls[d].ret

C12_Witness ==
    /\ ~overlap
    /\ calls # <<>>
    /\ calls[1].pc = "done"
    /\ calls[1].runs = 2
    /\ calls[1].arg = calls[2].arg
    /\ calls[2].pc = "done"
    /\ Len(calls[1].ret.breakdown_keys) = 2
    /\ calls[1].ret = calls[1].last

(***************************************************************************)
(* C13: generate_html_breakdown leaves its input unchanged: no step of a   *)
(* call changes the record it was given or anything inside it.             *)
(***************************************************************************)
C13_InputUnchanged ==
    [][\A c \in DOMAIN calls : calls'[c].arg = calls[c].arg]_vars

C13_Witness ==
    /\ calls # <<>>
    /\ calls[1].pc = "done"
    /\ calls[1].arg
         = Dict(<<"actionItems">>,
                <<Dict(<<"x">>, <<Dict(<<"owner">>, <<Str("Finance")>>)>>)>>)
    /\ calls[1].ret.breakdown_keys = <<"actionItems">>
    /\ Contains(calls[1].ret.full_html, "<li class=\"item-card\">")

(***************************************************************************)
(* C20: interleaved calls are isolated: each call, whatever other calls    *)
(* run between its steps, returns the result it returns when run alone.    *)
(***************************************************************************)
C20_InterleavedCallsIsolated ==
    \A c \in DOMAIN calls :
        calls[c].pc = "done" =>
            calls[c].ret = generate_html_breakdown(calls[c].arg)

C20_Witness ==
    /\ overlap
    /\ calls # <<>>
    /\ calls[1].pc = "done"
    /\ calls[2].pc = "done"
    /\ calls[1].arg # calls[2].arg
    /\ Len(calls[1].ret.breakdown_keys) = 2
    /\ Len(calls[2].ret.breakdown_keys) = 1

(***************************************************************************)
(* C27: a record with at least one key whose top-level values are all      *)
(* empty gives an empty breakdown and the empty container as full_html;    *)
(* the placeholder is returned only for a non-record or a record without   *)
(* keys, so every record with a key gives a container element.             *)
(***************************************************************************)
C27_AllEmptyGivesEmptyContainer ==
    Rendered =>
        /\ (IsRecord(arg) /\ arg.keys # <<>>
            /\ \A i \in 1..Len(arg.items) : is_section_empty(arg.items[i]))
           => (result.breakdown_keys = <<>>
               /\ result.full_html = Container(""))
        /\ (result.full_html = Placeholder)
           <=> (~IsRecord(arg) \/ arg.keys = <<>>)
        /\ (IsRecord(arg) /\ arg.keys # <<>>)
           => \E body \in {Join(ExpectedParts(arg))} :
                  result.full_html = Container(body)

C27_Witness ==
    /\ Rendered
    /\ IsRecord(arg)
    /\ Len(arg.keys) = 2
    /\ \A i \in 1..Len(arg.items) : is_section_empty(arg.items[i])
    /\ arg.items[1] = Num(7)
    /\ result.full_html = Container("")

(***************************************************************************)
(* C28: format_title is idempotent: formatting a title that format_title   *)
(* produced gives the same title, with no doubled spaces.                  *)
(***************************************************************************)
C28_FormatTitleIdempotent ==
    pc = "retitled" =>
        /\ title = format_title(arg.s)
        /\ ~Contains(title, "  ")

(***************************************************************************)
(* C29: the earlier definition of is_section_empty (lines 184-194) and the *)
(* later one (lines 1534-1541) return the same boolean for every value.    *)
(***************************************************************************)
C29_BothDefinitionsAgree ==
    pc = "checked_earlier" => (empty <=> is_section_empty(arg))

C29_Witness ==
    /\ pc = "checked_earlier"
    /\ arg = Wide(Str(""), MaxDepth)
    /\ empty

(***************************************************************************)
(* C25: imageContent holds exactly one entry per image whose text          *)
(* detection gave non-empty text, the inline base64 images first, then the *)
(* external URLs, then the image attachments, each group in source order;  *)
(* a failed or empty detection adds no entry and does not keep the images  *)
(* after it from being processed.                                          *)
(***************************************************************************)
Processed == mail # <<>> /\ mail.pc = "processed"

\* The names of the images of an email in the order they are processed.
ImageNames(e) ==
    LET inl == IF Falsy(e.body) THEN <<>> ELSE base64_matches(e.tokens)
        ext == IF Falsy(e.body) THEN <<>> ELSE url_matches(e.tokens)
        att == SelectSeq(e.attachments,
                         LAMBDA a : is_image_attachment(
                                        DictGet(a, "filename", Str("")),
                                        DictGet(a, "mimeType", Str(""))))
    IN [i \in 1..Len(inl) |->
           Str("inline_image_" \o NatStr(i) \o "."
               \o Base64Match(inl[i].src).img_type)]
       \o [i \in 1..Len(ext) |-> Str("external_image_" \o NatStr(i))]
       \o [i \in 1..Len(att) |-> DictGet(att[i], "filename", Str(""))]

\* The images whose detection gave text, as positions in ImageNames.
WithText ==
    SelectSeq([k \in 1..Len(ImageNames(mail.email)) |-> k],
              LAMBDA k : /\ mail.vision
                         /\ mail.ocr[k].kind = "text"
                         /\ mail.ocr[k].text # "")

C25_ImageContent ==
    Processed =>
        /\ Len(mail.out.imageContent) = Len(WithText)
        /\ \A j \in 1..Len(WithText) :
               /\ DictGet(mail.out.imageContent[j], "imageName", Null)
                    = ImageNames(mail.email)[WithText[j]]
               /\ DictGet(mail.out.imageContent[j], "extractedText", Null)
                    = Str(mail.ocr[WithText[j]].text)

C25_Witness ==
    /\ Processed
    /\ mail.vision
    /\ Len(mail.ocr) = 3
    /\ mail.ocr[2].kind = "api_error"
    /\ Len(base64_matches(mail.email.tokens)) = 1
    /\ Len(url_matches(mail.email.tokens)) = 1
    /\ Len(mail.out.imageContent) = 2
    /\ DictGet(mail.out.imageContent[1], "imageName", Null)
         = Str("inline_image_1.png")
    /\ DictGet(mail.out.imageContent[2], "imageName", Null) = Str("scan.png")

(***************************************************************************)
(* C26: hasImages is always a boolean, true exactly when imageContent,     *)
(* imageReferences or imageIndicators is non-empty.                        *)
(***************************************************************************)
C26_HasImagesIsBoolean ==
    Processed =>
        /\ mail.out.hasImages.t = "bool"
        /\ (mail.out.hasImages.n = 1)
           <=> \/ mail.out.imageContent # <<>>
               \/ mail.out.imageReferences # <<>>
               \/ mail.out.imageIndicators # <<>>

(***************************************************************************)
(* C30: is_image_attachment decides from the MIME type whenever one is     *)
(* given and looks at the extension of the file name only when none is:    *)
(* true iff the MIME type is non-empty and starts with image/, or it is    *)
(* empty and the lower-cased file name ends with a known image extension.  *)
(***************************************************************************)
Decided == mail # <<>> /\ mail.pc = "decided"

KnownExtensions ==
    {".jpg", ".jpeg", ".png", ".gif", ".bmp", ".webp", ".tiff", ".tif", ".svg"}

C30_MimeTypeFirst ==
    Decided =>
        LET a == mail.email.attachments[mail.att]
            filename == DictGet(a, "filename", Str(""))
            mime_type == DictGet(a, "mimeType", Str(""))
            given == mime_type.t = "str" /\ mime_type.s # ""
            named == filename.t = "str" /\ filename.s # ""
        IN mail.image <=>
               \/ (given /\ StartsWith(mime_type.s, "image/"))
               \/ (~given /\ named
                   /\ \E x \in KnownExtensions :
                          EndsWith(str_lower(filename.s), x))

C30_Witness ==
    /\ Decided
    /\ DictGet(mail.email.attachments[mail.att], "filename", Null)
         = Str("report.png")
    /\ DictGet(mail.email.attachments[mail.att], "mimeType", Null)
         = Str("application/pdf")
    /\ ~mail.image

(***************************************************************************)
(* C21: each endpoint that converts JSON to HTML through                   *)
(* convert_json_to_html reaches its success response (status 200,          *)
(* success = true): the sample endpoint for every authenticated request,   *)
(* the test endpoint for a non-empty json_data, and summarize-json once    *)
(* the model returned parseable JSON.                                      *)
(***************************************************************************)
Answered == http.pc = "answered"

Called(service) == \E i \in 1..Len(http.log) : http.log[i] = service

ReachesConversion ==
    \/ http.route = "sample_json_html"
    \/ (http.route = "json_to_html" /\ ~Falsy(http.data)
        /\ ~Falsy(DictGet(http.data, "json_data", Null)))
    \/ (http.route = "summarize_json" /\ Called("model")
        /\ http.model.kind = "text" /\ json_loads(http.model.text).ok)

C21_ConversionEndpointsSucceed ==
    (Answered /\ http.ran /\ ReachesConversion) =>
        (http.status = 200 /\ http.payload.success)

(***************************************************************************)
(* C22: the handler of a route runs only when the Authorization header,    *)
(* after removal of an optional "Bearer " prefix, decodes as a valid,      *)
(* unexpired token; with a missing header, an expired token or an invalid  *)
(* token the answer is 401 and neither the handler nor any call to another *)
(* service happens.                                                        *)
(***************************************************************************)
ValidHeader(header) ==
    /\ header.t = "str"
    /\ \/ jwt_decode(header.s) = "ok"
       \/ \E n \in 8..Len(header.s) :
              /\ SubSeq(header.s, 1, 7) = "Bearer "
              /\ jwt_decode(SubSeq(header.s, 8, Len(header.s))) = "ok"

C22_AuthenticationGate ==
    /\ http.ran => ValidHeader(http.header)
    /\ ~ValidHeader(http.header) =>
           /\ http.log = <<>>
           /\ http.pc \in {"received", "answered"}
           /\ Answered => (http.status = 401 /\ http.payload = NoPayload)

C22_Witness ==
    /\ Answered
    /\ http.header = Str("Bearer old.jwt")
    /\ http.status = 401
    /\ ~http.ran
    /\ http.route = "summarize"

(***************************************************************************)
(* C23: summarize_email calls the model at most once, and only after the   *)
(* email was fetched and has a non-empty body or an image with extracted   *)
(* text; without an API key the answer is 500 and no other service is      *)
(* called, a failed fetch gives 500 and no model call, and an email with   *)
(* neither body nor image text gives 400 and no model call.                *)
(***************************************************************************)
C23_ModelCalledOnceWithContent ==
    http.route = "summarize" =>
        /\ Cardinality({i \in 1..Len(http.log) : http.log[i] = "model"}) <= 1
        /\ \A i \in 1..Len(http.log) :
               http.log[i] = "model" =>
                   /\ http.key
                   /\ http.fetch = "ok"
                   /\ \E j \in 1..(i - 1) : http.log[j] = "fetch"
                   /\ \/ ~Falsy(http.email.body)
                      \/ http.processed.imageContent # <<>>
        /\ (Answered /\ http.ran /\ ~http.key) =>
               (http.status = 500 /\ http.log = <<>>)
        /\ (Answered /\ http.ran /\ http.key /\ http.fetch # "ok") =>
               (http.status = 500 /\ ~Called("model"))
        /\ (Answered /\ http.ran /\ http.key /\ http.fetch = "ok"
            /\ Falsy(http.email.body) /\ http.processed.imageContent = <<>>) =>
               (http.status = 400 /\ ~Called("model"))

C23_Witness ==
    /\ Answered
    /\ http.route = "summarize"
    /\ http.log = <<"fetch", "ocr">>
    /\ http.ocr = <<OcrError>>
    /\ http.status = 400

(***************************************************************************)
(* C24: summarize_email answers 200 only when the model returned a         *)
(* candidate whose text parses as JSON, and then summary_json is the       *)
(* parsed value and the two html fields are the breakdown and full_html of *)
(* generate_html_breakdown on it; no candidates gives 500, text that does  *)
(* not parse gives 500 "AI returned invalid JSON.", and every other        *)
(* failure is answered with a 4xx or 5xx message.                          *)
(***************************************************************************)
C24_SummarizeAnswers ==
    (http.route = "summarize" /\ Answered) =>
        /\ http.status \in {200} \cup 400..599
        /\ http.status # 200 => (http.message # "" /\ http.payload = NoPayload)
        /\ http.status = 200 =>
               /\ Called("model")
               /\ http.model.kind = "text"
               /\ json_loads(http.model.text).ok
               /\ http.payload.summary_json = json_loads(http.model.text).value
               /\ http.payload.html
                    = generate_html_breakdown(json_loads(http.model.text).value)
        /\ (Called("model") /\ http.model.kind = "no_candidates") =>
               http.status = 500
        /\ (Called("model") /\ http.model.kind = "text"
            /\ ~json_loads(http.model.text).ok) =>
               (http.status = 500 /\ http.message = "AI returned invalid JSON.")

C24_Witness ==
    /\ Answered
    /\ http.route = "summarize"
    /\ http.status = 200
    /\ http.payload.summary_json = Dict(<<"aB", "legalImpact">>,
                                        <<Str("hi"), List(<<Str("N/A")>>)>>)
    /\ http.payload.html.breakdown_keys = <<"aB", "legalImpact">>
    /\ http.log = <<"fetch", "ocr", "model">>

====
